---- MODULE Spec2Model ----
(***************************************************************************)
(* A model of the object-graph loader of                                   *)
(* tensorflow/python/saved_model/load.py (class Loader, load_internal,     *)
(* load, load_partial).                                                    *)
(*                                                                         *)
(* Strings.  A dotted string such as "root.a.b" is modelled as the         *)
(* sequence of its dot-free pieces, <<"root", "a", "b">>.  With this       *)
(* reading str.split(".") yields the pieces, "{}.{}".format(p, n) is the   *)
(* concatenation p \o n, and two strings are equal exactly when their      *)
(* sequences are.  A child's local_name is an arbitrary string, so it is   *)
(* a sequence of pieces too: <<"a">> is "a" and <<"a", "b">> is "a.b".     *)
(*                                                                         *)
(* Objects.  Python objects live in `heap`, a function from object ids     *)
(* (1, 2, ...) to records; object identity is equality of ids and 0 is     *)
(* None.                                                                   *)
(***************************************************************************)
EXTENDS Integers, Sequences, FiniteSets, TLC

VARIABLES
    children,         \* self._proto.nodes[i].children, per node id
    kinds,            \* self._proto.nodes[i].WhichOneof("kind"), per node id
    slot_variables,   \* self._proto.nodes[i].slot_variables, per node id
    details,          \* what else the proto of node i says: "optimizer" for a
                      \* user object of a registered optimizer type,
                      \* "lookup_table" for one of a registered table type,
                      \* "invalid" for a variable with inconsistent flags
    concrete_functions, \* sorted(self._proto.concrete_functions.items())
    save_options,     \* the options argument (LoadOptions)
    checkpoint,       \* the node ids the variables checkpoint has entries for
    restore_ops,      \* len(position.restore_ops()) of the entry of a node id
    eager,            \* context.executing_eagerly()
    filters,          \* the filters argument of load_internal
    tags,             \* the tags argument of load_internal
    heap,             \* the Python objects, by object id
    next_obj,         \* the id the next constructed object gets
    node_path_to_id,  \* self._node_path_to_id
    loaded_nodes,     \* self._loaded_nodes: node id -> (node, setter)
    nodes_to_visit,   \* the work queue of _retrieve_all_filtered_nodes
    all_filtered_nodes, \* the visited set of _retrieve_all_filtered_nodes
    filtered_nodes,   \* self._filtered_nodes ([all |-> TRUE] is None)
    nodes,            \* self._nodes: node id -> object id, 0 for None
    node_setters,     \* self._node_setters
    created,          \* history: the constructions made, in order
    wired,            \* history: the number of setter calls of _load_edges
    call_types,       \* the types _load_edges has set "__call__" on
    captured,         \* concrete_function._captured_inputs, per function
    restored,         \* the node ids whose objects got a checkpoint value
    initializer_op,   \* obj._initializer_op of the object of a node id
    table_initializers, \* the collection ops.GraphKeys.TABLE_INITIALIZERS
    calls,            \* history: the calls of _WrapperFunction._call_flat
    expanded,         \* history: how often each node id was expanded
    result,           \* the mapping load_internal returns
    error,            \* the exception raised, "" for none
    pc                \* the position of the load call

\* What the call is given: the serialized graph and the arguments.
inputs == <<children, kinds, slot_variables, details, concrete_functions,
            save_options, checkpoint, restore_ops, eager, filters, tags>>

vars == <<children, kinds, slot_variables, details, concrete_functions,
          save_options, checkpoint, restore_ops, eager, filters, tags, heap,
          next_obj,
          node_path_to_id, loaded_nodes, nodes_to_visit, all_filtered_nodes,
          filtered_nodes, nodes, node_setters, created, wired, call_types,
          captured,
          restored, initializer_op, table_initializers, calls, expanded,
          result, error, pc>>

-----------------------------------------------------------------------------
(* Bounds of the model *)

NumNodes == 4
MaxEdges == 3
MaxFilters == 3
MaxSupplied == 1

MaxCalls == 3

NodeIds == 0 .. (NumNodes - 1)

\* The local names a child edge may carry: "a", "b" and the dotted "a.b".
\* The order in which a node lists its children: "a", "b", the dotted "a.b",
\* "tensorflow_version", which is also an attribute load_internal sets on
\* the root, and "__call__".
NameOrder == << <<"a">>, <<"b">>, <<"a", "b">>, <<"tensorflow_version">>,
                <<"__call__">> >>

None == 0

\* A value that is no object of the heap: the debug info and the version
\* strings load_internal stores on the root.
Metadata == -1

-----------------------------------------------------------------------------
(* Partial functions (Python dicts) *)

EmptyDict == << >>

Put(f, k, v) == [x \in (DOMAIN f) \cup {k} |-> IF x = k THEN v ELSE f[x]]

Has(f, k) == k \in DOMAIN f

Range(s) == { s[i] : i \in DOMAIN s }

\* A local variable: v is computed once and Body is given the value.
Local(v, Body(_)) == CHOOSE r \in { Body(x) : x \in {v} } : TRUE

-----------------------------------------------------------------------------
(* The serialized object graph *)

\* One ChildEdge (proto.children[k]): local_name and node_id.
Reference(n, c) == [local_name |-> n, node_id |-> c]

\* The eight kinds _recreate knows; "unknown" is a WhichOneof("kind") that
\* is none of them.
KnownKinds == {"user_object", "asset", "function", "bare_concrete_function",
               "variable", "constant", "resource", "captured_tensor"}

-----------------------------------------------------------------------------
(* Objects *)

\* A freshly constructed object of class cls.  trackable: isinstance(obj,
\* base.Trackable); auto: the class is an AutoTrackable, whose __setattr__
\* also tracks the value as a dependency; ds: isinstance(obj,
\* data_structures.TrackableDataStructure).
NewObject(cls) ==
    [cls       |-> cls,
     trackable |-> cls \notin {"constant", "captured_tensor", "object"},
     auto      |-> cls = "user_object",
     ds        |-> FALSE,
     attrs     |-> EmptyDict,
     deps      |-> EmptyDict]

\* isinstance(value, base.Trackable)
IsTrackable(h, value) == value \in DOMAIN h /\ h[value].trackable

\* Python's builtin setattr(obj, name, value) on the heap h.  An
\* AutoTrackable keeps the dependency it tracks under the name when the new
\* value is no Trackable.
SetAttr(h, obj, name, value) ==
    [h EXCEPT ![obj].attrs = Put(@, name, value),
              ![obj].deps  = IF h[obj].auto /\ IsTrackable(h, value)
                             THEN Put(@, name, value) ELSE @]

\* _setattr_and_track(obj, name, value)
setattr_and_track(h, obj, name, value) ==
    LET h1 == SetAttr(h, obj, name, value)
    IN  IF IsTrackable(h, value)
        THEN [h1 EXCEPT ![obj].deps = Put(@, name, value)]
        ELSE h1

\* Calling a node's setter: setattr, _setattr_and_track, or the no-op
\* lambda *args: None.
ApplySetter(setter, h, obj, name, value) ==
    CASE setter = "setattr"           -> SetAttr(h, obj, name, value)
      [] setter = "setattr_and_track" -> setattr_and_track(h, obj, name, value)
      [] OTHER                        -> h

\* node._lookup_dependency(name): the tracked dependency, or None.
lookup_dependency(h, obj, name) ==
    IF Has(h[obj].deps, name) THEN h[obj].deps[name] ELSE None

\* The objects the caller holds before the call, which a mapping filter may
\* supply: a module X that tracks a list wrapper under "a" and a variable
\* under "b", an object that is no Trackable, the list wrapper (which tracks
\* the variable under "b"), and the variable.
CallerHeap ==
    << [NewObject("user_object") EXCEPT
           !.attrs = (<<"a">> :> 3) @@ (<<"b">> :> 4),
           !.deps  = (<<"a">> :> 3) @@ (<<"b">> :> 4)],
       NewObject("object"),
       [NewObject("list_wrapper") EXCEPT
           !.ds = TRUE,
           !.attrs = (<<"b">> :> 4),
           !.deps  = (<<"b">> :> 4)],
       NewObject("variable") >>

-----------------------------------------------------------------------------
(* Loader._convert_node_paths_to_ints and Loader._find_node_child *)

RECURSIVE FindReference(_, _)
FindReference(refs, child_name) ==
    IF refs = << >> THEN -1
    ELSE IF Head(refs).local_name = child_name THEN Head(refs).node_id
    ELSE FindReference(Tail(refs), child_name)

\* A lookup that stays at the node when no child has the name.
FindNodeChildOrStay(node_id, child_name) ==
    IF FindReference(children[node_id], child_name) = -1 THEN node_id
    ELSE FindReference(children[node_id], child_name)

\* The child's node id; -1 where the code raises "unable to find node".
find_node_child(node_id, child_name) ==
    FindReference(children[node_id], child_name)

RECURSIVE WalkPath(_, _)
WalkPath(int_node_id, names) ==
    IF names = << >> THEN int_node_id
    ELSE LET c == find_node_child(int_node_id, << Head(names) >>)
         IN  IF c = -1 THEN -1 ELSE WalkPath(c, Tail(names))

\* One element of node_filters: its node id, or the error raised for it.
\* A conversion that walks from the root whatever the first name is.
ConvertPathAnyFirstName(node_path) ==
    IF WalkPath(0, Tail(node_path)) = -1
    THEN [err |-> "UnknownChildError", id |-> -1]
    ELSE [err |-> "", id |-> WalkPath(0, Tail(node_path))]

ConvertPath(node_path) ==
    IF node_path[1] # "root" THEN [err |-> "MalformedPathError", id |-> -1]
    ELSE LET id == WalkPath(0, Tail(node_path))
         IN  IF id = -1 THEN [err |-> "UnknownChildError", id |-> -1]
             ELSE [err |-> "", id |-> id]

RECURSIVE ConvertFrom(_, _)
ConvertFrom(keys, path_to_int) ==
    IF keys = << >> THEN [err |-> "", map |-> path_to_int]
    ELSE LET r == ConvertPath(Head(keys))
         IN  IF r.err # "" THEN [err |-> r.err, map |-> path_to_int]
             ELSE ConvertFrom(Tail(keys), Put(path_to_int, Head(keys), r.id))

convert_node_paths_to_ints == ConvertFrom(filters.keys, EmptyDict)

\* Loader.__init__, the loop over filters.items(): a tuple value is stored
\* as it is, any other value v as (v, setattr).
RECURSIVE InitLoadedNodes(_, _, _)
InitLoadedNodes(i, path_to_int, ln) ==
    IF i > Len(filters.keys) THEN ln
    ELSE LET v == filters.vals[i]
         IN  InitLoadedNodes(i + 1, path_to_int,
                 Put(ln, path_to_int[filters.keys[i]],
                     [node |-> v.node,
                      setter |-> IF v.tuple THEN v.setter ELSE "setattr"]))

-----------------------------------------------------------------------------
(* Loader._retrieve_all_filtered_nodes *)

\* self._filtered_nodes: None (every node is loaded) or a set of node ids.
AllNodes == [all |-> TRUE, ids |-> {}]
Only(ids) == [all |-> FALSE, ids |-> ids]

\* self._loaded_nodes.get(node_id, (None, None))[0]
LoadedNode(ln, node_id) == IF Has(ln, node_id) THEN ln[node_id].node ELSE None

\* The loop over self._proto.nodes[node_id].children of one visited node.
\* st = [ln, p2i, q]: _loaded_nodes, _node_path_to_id and nodes_to_visit.
RECURSIVE VisitChildren(_, _, _, _)
VisitChildren(refs, node, node_path, state) ==
    Local(state, LAMBDA st :
    IF refs = << >> THEN st
    ELSE LET reference    == Head(refs)
             child_object == LoadedNode(st.ln, reference.node_id)
             looked_up    == IF child_object = None /\ node # None
                             THEN lookup_dependency(heap, node,
                                                    reference.local_name)
                             ELSE None
             ln2          == IF looked_up # None /\ heap[looked_up].ds
                             THEN Put(st.ln, reference.node_id,
                                      [node |-> looked_up, setter |-> "noop"])
                             ELSE st.ln
             child_path   == node_path \o reference.local_name
         IN  VisitChildren(Tail(refs), node, node_path,
                 [ln  |-> ln2,
                  p2i |-> Put(st.p2i, child_path, reference.node_id),
                  q   |-> Append(st.q, child_path)]))

\* A traversal that keeps no record of the nodes it has expanded.
NeverVisited(node_id, visited) == FALSE

\* if node_id in all_filtered_nodes: continue
AlreadyVisited(node_id, visited) == node_id \in visited

\* A selection that has no load-all sentinel.
FilteredResultNoSentinel(visited) == Only(visited)

\* if 0 in all_filtered_nodes: return None; return all_filtered_nodes
FilteredResult(visited) == IF 0 \in visited THEN AllNodes ELSE Only(visited)

-----------------------------------------------------------------------------
(* Loader._iter_all_nodes *)

Min(S) == CHOOSE x \in S : \A y \in S : x <= y

RECURSIVE Ascending(_)
Ascending(S) == IF S = {} THEN << >>
                ELSE << Min(S) >> \o Ascending(S \ {Min(S)})

\* enumerate(self._proto.nodes), or the ids of the filtered set (a set of
\* small ints, which CPython iterates in increasing order).
iter_all_nodes(fn) == IF fn.all THEN Ascending(NodeIds) ELSE Ascending(fn.ids)

-----------------------------------------------------------------------------
(* Loader._load_nodes *)

\* The setter _recreate returns with an object of the given kind.
RecreateSetter(kind) ==
    IF kind = "resource" THEN "setattr_and_track" ELSE "setattr"

\* A first pass that defers no node.
NoSlotIds(ids) == {}

\* slot_variable_node_ids
RECURSIVE SlotIds(_)
SlotIds(ids) ==
    IF ids = << >> THEN {}
    ELSE { sv.slot_variable_node_id : sv \in Range(slot_variables[Head(ids)]) }
         \cup SlotIds(Tail(ids))

\* What one construction adds to st = [nodes, setters, heap, next, created,
\* err].
Construct(st, node_id, cls, setter, how) ==
    [st EXCEPT !.nodes   = Put(@, node_id, st.next),
               !.setters = Put(@, node_id, setter),
               !.heap    = Put(@, st.next, NewObject(cls)),
               !.next    = @ + 1,
               !.created = Append(@, [node_id |-> node_id, obj |-> st.next,
                                      how |-> how, by |-> None, var |-> None,
                                      slot_name |-> ""])]

\* The class of the object _recreate makes for a node: _recreate_user_object
\* returns the revived object of a registered type, here an optimizer, and
\* otherwise a _UserObject; _recreate_variable returns what the variable
\* creator of an enclosing distribution strategy makes, when there is one.
RecreatedClass(node_id) ==
    IF kinds[node_id] = "user_object" /\ details[node_id] = "optimizer"
    THEN "optimizer"
    ELSE IF kinds[node_id] = "user_object" /\ details[node_id] = "lookup_table"
    THEN "lookup_table"
    ELSE IF kinds[node_id] = "variable" /\ details[node_id] = "distributed"
    THEN "distributed_variable"
    ELSE kinds[node_id]

\* A factory that makes an object for any kind.
RecreateAnyKind(node_id) ==
    IF kinds[node_id] = "variable" /\ details[node_id] = "invalid"
    THEN "InvalidVariableConfig"
    ELSE ""

\* The error _recreate raises for a node, "" when it raises none: the kind
\* is not in the factory, or validate_synchronization_aggregation_trainable
\* rejects the flags of a variable.
RecreateError(node_id) ==
    IF kinds[node_id] \notin KnownKinds THEN "UnknownNodeKindError"
    ELSE IF kinds[node_id] = "variable" /\ details[node_id] = "invalid"
    THEN "InvalidVariableConfig"
    ELSE ""

\* nodes.get(node_id)
Get(d, k) == IF Has(d, k) THEN d[k] ELSE None

\* First pass: re-create everything except slot variables and the nodes
\* that already hold an object.
RECURSIVE RecreatePass(_, _, _)
RecreatePass(ids, slot_ids, state) ==
    Local(state, LAMBDA st :
    IF ids = << >> \/ st.err # "" THEN st
    ELSE LET node_id == Head(ids)
         IN  IF node_id \in slot_ids \/ Get(st.nodes, node_id) # None
             THEN RecreatePass(Tail(ids), slot_ids, st)
             ELSE IF RecreateError(node_id) # ""
             THEN [st EXCEPT !.err = RecreateError(node_id)]
             ELSE RecreatePass(Tail(ids), slot_ids,
                      Construct(st, node_id, RecreatedClass(node_id),
                                RecreateSetter(kinds[node_id]), "recreate")))

\* slot_variable = optimizer_object.add_slot(var=optimized_variable,
\* slot_name=...), stored under the slot variable's node id with setattr.
add_slot(st, sv, optimizer_object) ==
    LET c == Construct(st, sv.slot_variable_node_id, "variable", "setattr",
                       "add_slot")
    IN  [c EXCEPT !.created[Len(c.created)] =
            [@ EXCEPT !.by = optimizer_object,
                      !.var = st.nodes[sv.original_variable_node_id],
                      !.slot_name = sv.slot_name]]

\* The slot variables of one optimizer node.
RECURSIVE AddSlots(_, _, _)
AddSlots(svs, optimizer_object, state) ==
    Local(state, LAMBDA st :
    IF svs = << >> \/ st.err # "" THEN st
    ELSE LET sv == Head(svs)
         IN  IF ~Has(st.nodes, sv.original_variable_node_id)
             THEN [st EXCEPT !.err = "KeyError"]
             ELSE IF optimizer_object = None
                     \/ st.heap[optimizer_object].cls # "optimizer"
             THEN [st EXCEPT !.err = "AttributeError"]
             ELSE AddSlots(Tail(svs), optimizer_object,
                      add_slot(st, sv, optimizer_object)))

\* Second pass: the slot variables, through the optimizer's add_slot.
RECURSIVE SlotPass(_, _)
SlotPass(ids, state) ==
    Local(state, LAMBDA st :
    IF ids = << >> \/ st.err # "" THEN st
    ELSE LET node_id == Head(ids)
         IN  IF ~Has(st.nodes, node_id)
             THEN [st EXCEPT !.err = "KeyError"]
             ELSE SlotPass(Tail(ids),
                      AddSlots(slot_variables[node_id], st.nodes[node_id], st)))

\* if 0 not in nodes: nodes[0] = self._recreate_base_user_object()[0]
\* (the setter of the dummy root is not stored).
DummyRoot(state) ==
    Local(state, LAMBDA st :
    IF st.err # "" \/ Has(st.nodes, 0) THEN st
    ELSE [Construct(st, 0, "user_object", "setattr", "dummy_root")
             EXCEPT !.setters = st.setters])

\* _initialize_loaded_nodes
InitialNodes(ln) == [i \in DOMAIN ln |-> ln[i].node]
InitialSetters(ln) == [i \in DOMAIN ln |-> ln[i].setter]

load_nodes(ids) ==
    LET st0 == [nodes |-> InitialNodes(loaded_nodes),
                setters |-> InitialSetters(loaded_nodes),
                heap |-> heap, next |-> next_obj, created |-> created,
                err |-> ""]
    IN  DummyRoot(SlotPass(ids, RecreatePass(ids, SlotIds(ids), st0)))

-----------------------------------------------------------------------------
(* Loader._load_edges and Loader._add_object_graph_edges *)

\* A loader whose user objects are all of one class.
OneUserObjectClass(h, obj) == [cls |-> h[obj].cls, own |-> None]

\* type(obj): _recreate_base_user_object defines a class of its own for
\* each object it makes; the objects of any other class share their type.
TypeOf(h, obj) ==
    IF h[obj].cls = "user_object" /\ obj > Len(CallerHeap)
    THEN [cls |-> "user_object", own |-> obj]
    ELSE [cls |-> h[obj].cls, own |-> None]

\* callable(obj): the type of the object has "__call__", of itself
\* (functions) or set by _add_object_graph_edges.
Callable(h, types, obj) ==
    /\ obj \in DOMAIN h
    /\ \/ h[obj].cls \in {"function", "bare_concrete_function"}
       \/ TypeOf(h, obj) \in types

\* if reference.local_name == "__call__" and not callable(obj):
\*   setattr(type(obj), "__call__", _call_attribute)
WithCallAttribute(h, types, obj, local_name) ==
    IF local_name = << "__call__" >> /\ obj \in DOMAIN h
       /\ ~Callable(h, types, obj)
    THEN types \cup { TypeOf(h, obj) }
    ELSE types

\* _add_object_graph_edges: the setter is called once per child reference.
\* st = [heap, next, created, wired, call_types, err].
RECURSIVE add_object_graph_edges(_, _, _, _)
add_object_graph_edges(refs, obj, setter, state) ==
    Local(state, LAMBDA st :
    IF refs = << >> \/ st.err # "" THEN st
    ELSE LET reference == Head(refs)
         IN  IF obj = None /\ setter # "noop"
             THEN [st EXCEPT !.err = "AttributeError"]
             ELSE add_object_graph_edges(Tail(refs), obj, setter,
                      [st EXCEPT !.heap = ApplySetter(setter, st.heap, obj,
                                              reference.local_name,
                                              nodes[reference.node_id]),
                                 !.wired = @ + 1,
                                 !.call_types =
                                     WithCallAttribute(st.heap, @, obj,
                                                       reference.local_name)]))

RECURSIVE AddAllEdges(_, _)
AddAllEdges(ids, state) ==
    Local(state, LAMBDA st :
    IF ids = << >> \/ st.err # "" THEN st
    ELSE AddAllEdges(Tail(ids),
             add_object_graph_edges(children[Head(ids)], nodes[Head(ids)],
                                    node_setters[Head(ids)], st)))

\* hasattr(obj, name) for a name that is one piece of a path
HasAttr(h, obj, name) == obj \in DOMAIN h /\ Has(h[obj].attrs, << name >>)

\* for name in path[1:-1]: create the missing placeholder, then descend.
\* w = [st, current_node].
RECURSIVE Descend(_, _)
Descend(names, walk) ==
    Local(walk, LAMBDA w :
    IF names = << >> \/ w.st.err # "" THEN w
    ELSE LET name == Head(names)
             cur  == w.current_node
         IN  IF HasAttr(w.st.heap, cur, name)
             THEN Descend(Tail(names),
                      [w EXCEPT !.current_node = w.st.heap[cur].attrs[<< name >>]])
             ELSE IF cur \notin DOMAIN w.st.heap
             THEN [w EXCEPT !.st.err = "AttributeError"]
             ELSE LET new == w.st.next
                      h1  == Put(w.st.heap, new, NewObject("user_object"))
                  IN  Descend(Tail(names),
                          [st |-> [w.st EXCEPT
                                     !.heap = SetAttr(h1, cur, << name >>, new),
                                     !.next = @ + 1,
                                     !.created = Append(@, [node_id |-> -1,
                                                            obj |-> new,
                                                            how |-> "placeholder",
                                                            by |-> None,
                                                            var |-> None,
                                                            slot_name |-> ""])],
                           current_node |-> new]))

\* The edges from the dummy root to one requested path.
RootEdgesFor(node_path, st) ==
    LET loaded_node == nodes[node_path_to_id[node_path]]
        path        == node_path
        last        == path[Len(path)]
    IN  Local(Descend(SubSeq(path, 2, Len(path) - 1),
                      [st |-> st, current_node |-> nodes[0]]), LAMBDA w :
        IF w.st.err # "" \/ HasAttr(w.st.heap, w.current_node, last) THEN w.st
        ELSE IF w.current_node \notin DOMAIN w.st.heap
        THEN [w.st EXCEPT !.err = "AttributeError"]
        ELSE [w.st EXCEPT !.heap = SetAttr(@, w.current_node, << last >>,
                                           loaded_node)])

RECURSIVE RootEdges(_, _)
RootEdges(keys, state) ==
    Local(state, LAMBDA st :
    IF keys = << >> \/ st.err # "" THEN st
    ELSE RootEdges(Tail(keys), RootEdgesFor(Head(keys), st)))

load_edges ==
    LET st0 == [heap |-> heap, next |-> next_obj, created |-> created,
                wired |-> wired, call_types |-> call_types, err |-> ""]
        st1 == AddAllEdges(iter_all_nodes(filtered_nodes), st0)
    IN  IF ~filtered_nodes.all /\ 0 \notin filtered_nodes.ids
        THEN RootEdges(filters.keys, st1)
        ELSE st1

-----------------------------------------------------------------------------
(* Loader._setup_functions_captures and Loader._get_tensor_from_node *)

\* A captured value: an object itself, or a tensor of it (its handle, its
\* asset_path, its resource_handle).
Capture(obj, as) == [of |-> obj, as |-> as]

\* distribute_utils.is_distributed_variable(x)
is_distributed_variable(h, x) ==
    x.as = "object" /\ x.of \in DOMAIN h /\ h[x.of].cls = "distributed_variable"

\* A resolution that does not look whether the node was loaded.
NotLoadedUnchecked(node_id) == FALSE

\* self._node_filters is not None and self._nodes[node_id] is None
NotLoaded(node_id) == filters.kind # "none" /\ nodes[node_id] = None

\* The class of an object, "NoneType" for None.
ClassOf(h, obj) == IF obj \in DOMAIN h THEN h[obj].cls ELSE "NoneType"

\* resource_variable_ops.is_resource_variable(obj): a distributed variable
\* acts as a resource variable too.
is_resource_variable(h, obj) ==
    ClassOf(h, obj) \in {"variable", "distributed_variable"}

\* isinstance(obj, tracking.Asset)
IsAsset(h, obj) == ClassOf(h, obj) = "asset"

\* tensor_util.is_tf_type(obj): tensors, and variables as well.
is_tf_type(h, obj) ==
    ClassOf(h, obj) \in {"constant", "captured_tensor", "variable",
                         "distributed_variable"}

\* isinstance(obj, tracking.CapturableResource)
IsCapturableResource(h, obj) == ClassOf(h, obj) = "resource"

\* A chain that tests for a tensor type first.
TensorTypeFirst(obj) ==
    IF is_tf_type(heap, obj)
    THEN [err |-> "", value |-> Capture(obj, "object")]
    ELSE IF IsAsset(heap, obj)
    THEN [err |-> "", value |-> Capture(obj, "asset_path")]
    ELSE IF IsCapturableResource(heap, obj)
    THEN [err |-> "", value |-> Capture(obj, "resource_handle")]
    ELSE [err |-> "CaptureResolutionError", value |-> Capture(None, "")]

\* The if/elif chain of _get_tensor_from_node on a loaded object.
TensorOf(obj) ==
    IF is_distributed_variable(heap, Capture(obj, "object"))
    THEN [err |-> "", value |-> Capture(obj, "object")]
    ELSE IF is_resource_variable(heap, obj)
    THEN [err |-> "", value |-> Capture(obj, "handle")]
    ELSE IF IsAsset(heap, obj)
    THEN [err |-> "", value |-> Capture(obj, "asset_path")]
    ELSE IF is_tf_type(heap, obj)
    THEN [err |-> "", value |-> Capture(obj, "object")]
    ELSE IF IsCapturableResource(heap, obj)
    THEN [err |-> "", value |-> Capture(obj, "resource_handle")]
    ELSE [err |-> "CaptureResolutionError", value |-> Capture(None, "")]

\* The tensor a function captures for a node id, or the error raised.
get_tensor_from_node(node_id) ==
    IF NotLoaded(node_id)
    THEN [err |-> "MissingDependencyError", value |-> Capture(None, "")]
    ELSE TensorOf(nodes[node_id])

\* bound_inputs = [self._get_tensor_from_node(node_id, name)
\*                 for node_id in proto.bound_inputs]
\* b = [err, values].
RECURSIVE BoundInputs(_, _)
BoundInputs(ids, bound) ==
    Local(bound, LAMBDA b :
    IF ids = << >> \/ b.err # "" THEN b
    ELSE LET t == get_tensor_from_node(Head(ids))
         IN  BoundInputs(Tail(ids),
                 [err    |-> t.err,
                  values |-> IF t.err = "" THEN Append(b.values, t.value)
                             ELSE b.values]))

\* The loop over the concrete functions, from function k on.
\* st = [err, captured].
RECURSIVE SetupCaptures(_, _)
SetupCaptures(k, state) ==
    Local(state, LAMBDA st :
    IF k > Len(concrete_functions) \/ st.err # "" THEN st
    ELSE LET b == BoundInputs(concrete_functions[k].bound_inputs,
                              [err |-> "", values |-> << >>])
         IN  SetupCaptures(k + 1,
                 [err      |-> b.err,
                  captured |-> IF b.err = "" THEN Put(st.captured, k, b.values)
                               ELSE st.captured]))

setup_functions_captures ==
    SetupCaptures(1, [err |-> "", captured |-> captured])

-----------------------------------------------------------------------------
(* Loader._restore_checkpoint, executing eagerly *)

\* The nodes whose objects carry a value a checkpoint entry restores: the
\* constructed variables.
Restorable ==
    { i \in NodeIds : nodes[i] \in DOMAIN heap
                        /\ heap[nodes[i]].cls \in {"variable",
                                                   "distributed_variable"} }

\* saver.restore(variables_path, options): the entries that match an object.
Matched == checkpoint \cap Restorable

\* load_status.assert_nontrivial_match()
assert_nontrivial_match ==
    IF Matched = {} THEN "NoMatchError" ELSE ""

\* load_status.assert_existing_objects_matched(): every object that exists
\* has its entry.  Entries without an object pass: load_partial documents
\* the load of "root.layer_1" alone, with the default options, from a model
\* that was saved with the variables of layer_1 and of layer_2.
assert_existing_objects_matched ==
    IF Restorable \ checkpoint # {} THEN "UnmatchedObjectsError" ELSE ""

\* A restore that asserts the strict match whatever the options say.
RestoreAlwaysStrict == assert_existing_objects_matched

\* A restore that asserts the partial match whatever the options say.
RestoreAlwaysPartial == assert_nontrivial_match

\* The assertion made on the status of the restore, by the option
\* allow_partial_checkpoint; "" when it passes.
restore_checkpoint ==
    IF save_options.allow_partial_checkpoint
    THEN assert_nontrivial_match
    ELSE assert_existing_objects_matched

\* dict(checkpoint.object_by_proto_id).items(): the objects the restore
\* matched with an entry of the checkpoint.
object_by_proto_id ==
    Ascending({ i \in checkpoint : nodes[i] \in DOMAIN heap })

\* isinstance(obj, lookup_ops.LookupInterface)
IsLookupInterface(h, obj) == ClassOf(h, obj) = "lookup_table"

\* A loop body without the test "if restore_ops:".
WireWithoutTest(node_id, st) ==
    IF is_resource_variable(heap, nodes[node_id])
    THEN [st EXCEPT !.init[node_id] =
             IF restore_ops[node_id] = 1 THEN "restore_op" ELSE "group"]
    ELSE IF IsLookupInterface(heap, nodes[node_id])
    THEN [st EXCEPT !.tables = Append(@, node_id)]
    ELSE [st EXCEPT !.err = "UnsupportedRestoreTarget"]

\* The body of the loop over the matched objects: the restore ops of a
\* resource variable become its initializer (the op itself, or a group of
\* them), those of a lookup table are added to the table initializers, and
\* those of any other object raise NotImplementedError.
\* st = [init, tables, err].
WireRestoreOps(node_id, st) ==
    IF restore_ops[node_id] = 0 THEN st
    ELSE IF is_resource_variable(heap, nodes[node_id])
    THEN [st EXCEPT !.init[node_id] =
             IF restore_ops[node_id] = 1 THEN "restore_op" ELSE "group"]
    ELSE IF IsLookupInterface(heap, nodes[node_id])
    THEN [st EXCEPT !.tables = Append(@, node_id)]
    ELSE [st EXCEPT !.err = "UnsupportedRestoreTarget"]

RECURSIVE WireAllRestoreOps(_, _)
WireAllRestoreOps(ids, state) ==
    Local(state, LAMBDA st :
    IF ids = << >> \/ st.err # "" THEN st
    ELSE WireAllRestoreOps(Tail(ids), WireRestoreOps(Head(ids), st)))

\* if not context.executing_eagerly(): for object_id, obj in ...
wire_restore_ops ==
    LET st0 == [init |-> initializer_op, tables |-> table_initializers,
                err |-> ""]
    IN  IF eager THEN st0 ELSE WireAllRestoreOps(object_by_proto_id, st0)

-----------------------------------------------------------------------------
(* Loader.get and the mapping load_internal returns *)

\* Loader.get(node_id) for a string node_id
get(node_path) == nodes[node_path_to_id[node_path]]

\* if filters: {node_id: loader.get(node_id) for node_id in filters}
\* else: {"root": root}
Returned ==
    IF filters.kind # "none" /\ filters.keys # << >>
    THEN [k \in Range(filters.keys) |-> get(k)]
    ELSE [k \in { << "root" >> } |-> nodes[0]]

-----------------------------------------------------------------------------
(* The inputs of a load call *)

\* The child edges the serialized graphs are drawn from, as
\* <<parent id, local name, child id>>.
CandidateEdges ==
    { << 0, <<"a">>, 1 >>,        \* root.a
      << 0, <<"a">>, 0 >>,        \* the root as its own child
      << 0, <<"tensorflow_version">>, 1 >>,
      << 0, <<"b">>, 1 >>,        \* root.b, a second path to node 1
      << 0, <<"b">>, 2 >>,
      << 0, <<"a", "b">>, 2 >>,   \* a child of the root named "a.b"
      << 1, <<"b">>, 0 >>,        \* a cycle through the root
      << 1, <<"b">>, 2 >>,
      << 1, <<"a">>, 1 >>,        \* a node that is its own child
      << 2, <<"a">>, 1 >> }

\* No node has two children of one local name.
Functional(E) ==
    \A e1 \in E, e2 \in E : (e1[1] = e2[1] /\ e1[2] = e2[2]) => e1 = e2

EdgeSets ==
    { E \in SUBSET CandidateEdges : Cardinality(E) <= MaxEdges /\ Functional(E) }

RECURSIVE ChildrenFrom(_, _, _)
ChildrenFrom(E, i, k) ==
    IF k > Len(NameOrder) THEN << >>
    ELSE LET here == { e \in E : e[1] = i /\ e[2] = NameOrder[k] }
         IN  (IF here = {} THEN << >>
              ELSE << Reference(NameOrder[k], (CHOOSE e \in here : TRUE)[3]) >>)
             \o ChildrenFrom(E, i, k + 1)

ChildrenOf(E) == [i \in NodeIds |-> ChildrenFrom(E, i, 1)]

\* A value of a mapping filter: None, an object, or a (node, setter) tuple.
Value(node) == [node |-> node, tuple |-> FALSE, setter |-> ""]
TupleValue(node, setter) == [node |-> node, tuple |-> TRUE, setter |-> setter]

\* The values a mapping filter is given: None, the module, the object that
\* is no Trackable, and the variable.
SuppliedValues == { Value(1), Value(2), Value(4) }
FilterValues == { Value(None) } \cup SuppliedValues

\* The requested paths that start with "root", and those that do not.
RootPaths == { <<"root">>, <<"root", "a">>, <<"root", "b">>,
               <<"root", "a", "b">> }
OtherPaths == { <<"a">>, <<"a", "root">> }

SeqsUpTo(S, n) == UNION { [1 .. k -> S] : k \in 0 .. n }

Distinct(s) == \A i \in DOMAIN s, j \in DOMAIN s : s[i] = s[j] => i = j

\* The key sequences: up to MaxFilters different root paths in any order;
\* one path listed twice; one path that does not start with "root", alone,
\* before or after a root path.
FilterKeys ==
    { s \in SeqsUpTo(RootPaths, MaxFilters) : Distinct(s) }

RepeatedKeys == { << p, p >> : p \in RootPaths }

MalformedKeys ==
    { << o >> : o \in OtherPaths }
    \cup { << o, p >> : o \in OtherPaths, p \in RootPaths }
    \cup { << p, o >> : o \in OtherPaths, p \in RootPaths }

NoFilters == [kind |-> "none", keys |-> << >>, vals |-> << >>]

ListFilters ==
    { [kind |-> "list", keys |-> ks, vals |-> [i \in DOMAIN ks |-> Value(None)]] :
        ks \in FilterKeys \cup RepeatedKeys \cup MalformedKeys }

\* The number of entries of a mapping that supply an object.
Supplied(vs) == Cardinality({ i \in DOMAIN vs : vs[i].node # None })

DictFilters ==
    UNION { { [kind |-> "dict", keys |-> ks, vals |-> vs] :
                vs \in { v \in [DOMAIN ks -> FilterValues] :
                           Supplied(v) <= MaxSupplied } } :
            ks \in FilterKeys }

\* The graphs the mapping filters are tried on.
DictEdgeSets ==
    { E \in SUBSET { << 0, <<"a">>, 1 >>, << 0, <<"b">>, 1 >>,
                     << 0, <<"a", "b">>, 2 >>, << 1, <<"b">>, 0 >>,
                     << 1, <<"b">>, 2 >> } : Functional(E) }

\* meta_graph_def.meta_info_def.tags
MetaTags == {"serve"}

\* The tags argument: omitted (None), or a set of tags.
NoTags == [given |-> FALSE, set |-> {}]
Tags(S) == [given |-> TRUE, set |-> S]

\* The graphs where node 1 has a child named "a.b" next to a child "a" that
\* has a child "b" of its own: two children below node 1 whose paths read
\* the same.
DeepEdgeSets ==
    { E \in SUBSET { << 0, <<"a">>, 1 >>, << 1, <<"a">>, 2 >>,
                     << 1, <<"a", "b">>, 3 >>, << 2, <<"b">>, 1 >> } :
        << 0, <<"a">>, 1 >> \in E }

\* A call without filters or with a list of paths, on any graph; a call
\* with a mapping, on one of the graphs kept for mappings; a call that
\* passes tags; a call without filters or with a list of one path, on one
\* of the graphs with a dotted name below node 1.
ChooseInputs ==
    \/ /\ \E E \in EdgeSets : children = ChildrenOf(E)
       /\ filters \in {NoFilters} \cup ListFilters
       /\ tags = NoTags
    \/ /\ \E E \in DictEdgeSets : children = ChildrenOf(E)
       /\ filters \in DictFilters
       /\ tags = NoTags
    \/ /\ \E E \in DictEdgeSets : children = ChildrenOf(E)
       /\ filters \in {NoFilters} \cup
              { f \in ListFilters \cup DictFilters : Len(f.keys) = 1 }
       /\ tags \in { Tags({"serve"}), Tags({"serve", "gpu"}), Tags({}) }
    \/ /\ \E E \in DeepEdgeSets : children = ChildrenOf(E)
       /\ filters \in {NoFilters} \cup { f \in ListFilters : Len(f.keys) = 1 }
       /\ tags = NoTags

\* The graphs with cycles and with nodes shared by several parents: node 1
\* is a child of the root under two names, of itself and of node 2, and the
\* root is a child of node 1.
CyclicEdgeSets ==
    { E \in SUBSET { << 0, <<"a">>, 1 >>, << 0, <<"b">>, 1 >>,
                     << 1, <<"b">>, 0 >>, << 1, <<"b">>, 2 >>,
                     << 1, <<"a">>, 1 >>, << 2, <<"a">>, 1 >> } : Functional(E) }

\* A call without filters or with a list of one or two paths, on one of the
\* graphs with cycles.
ChooseCyclic ==
    /\ \E E \in CyclicEdgeSets : children = ChildrenOf(E)
    /\ filters \in {NoFilters} \cup { f \in ListFilters : Len(f.keys) <= 2 }
    /\ tags = NoTags

\* Eager execution, the default, where restore has applied every value and
\* leaves no restore op to wire.
Eagerly ==
    /\ eager = TRUE
    /\ restore_ops = [i \in NodeIds |-> 0]

\* LoadOptions: allow_partial_checkpoint and experimental_skip_checkpoint.
LoadOptions(allow_partial, skip) ==
    [allow_partial_checkpoint |-> allow_partial,
     experimental_skip_checkpoint |-> skip]

\* The graphs the loads of other node kinds, slot variables, functions and
\* checkpoints are tried on.
SmallEdgeSets ==
    SUBSET { << 0, <<"a">>, 1 >>, << 0, <<"b">>, 2 >>, << 1, <<"b">>, 2 >> }

ChainEdgeSets ==
    { { << 0, <<"a">>, 1 >>, << 1, <<"b">>, 2 >> },
      { << 0, <<"a">>, 1 >>, << 0, <<"b">>, 2 >> } }

\* A list of at most two different root paths; a list of at most one.
ShortLists == { f \in ListFilters : f.keys \in FilterKeys /\ Len(f.keys) <= 2 }
OneLists == { f \in ShortLists : Len(f.keys) <= 1 }

\* A mapping of one root path.
OneDicts == { f \in DictFilters : Len(f.keys) = 1 }

\* What the proto of a node says of its kind: a user object, a variable, a
\* variable whose flags validate_synchronization_aggregation_trainable
\* rejects, a kind _recreate does not know.
NodeProtos == { << "user_object", "" >>, << "variable", "" >>,
                << "variable", "invalid" >>, << "unknown", "" >> }

PlainProtos == { << "user_object", "" >>, << "variable", "" >> }

\* A graph of nodes of several kinds, loaded without filters, with a list
\* of paths or with a mapping of one path.
ChooseKinds ==
    /\ \E E \in SmallEdgeSets : children = ChildrenOf(E)
    /\ \E t \in [NodeIds -> NodeProtos] :
          /\ kinds = [i \in NodeIds |-> t[i][1]]
          /\ details = [i \in NodeIds |-> t[i][2]]
    /\ slot_variables = [i \in NodeIds |-> << >>]
    /\ concrete_functions = << >>
    /\ save_options = LoadOptions(FALSE, TRUE)
    /\ checkpoint = {}
    /\ Eagerly
    /\ filters \in {NoFilters} \cup ShortLists \cup OneDicts
    /\ tags = NoTags

\* One SlotVariableReference of an optimizer node.
SlotVariableReference(original, name, slot) ==
    [original_variable_node_id |-> original, slot_name |-> name,
     slot_variable_node_id |-> slot]

\* A graph with an owner node that has one slot variable "m" for a
\* variable: the three are different nodes, the owner is a user object (of
\* a registered optimizer type, or not), the variable is a variable, and
\* the slot variable is a variable or carries a kind _recreate does not
\* know.
ChooseSlots ==
    /\ \E E \in SmallEdgeSets : children = ChildrenOf(E)
    /\ \E owner \in NodeIds, var \in NodeIds, slot \in NodeIds :
          /\ owner # var /\ owner # slot /\ var # slot
          /\ \E k \in {"variable", "unknown"} :
                kinds = [i \in NodeIds |-> IF i = var THEN "variable"
                                           ELSE IF i = slot THEN k
                                           ELSE "user_object"]
          /\ \E d \in {"optimizer", ""} :
                details = [i \in NodeIds |-> IF i = owner THEN d ELSE ""]
          /\ slot_variables =
                [i \in NodeIds |-> IF i = owner
                                   THEN << SlotVariableReference(var, "m", slot) >>
                                   ELSE << >>]
    /\ concrete_functions = << >>
    /\ save_options = LoadOptions(FALSE, TRUE)
    /\ checkpoint = {}
    /\ Eagerly
    /\ filters \in {NoFilters} \cup ShortLists \cup OneDicts
    /\ tags = NoTags

\* The bound_inputs of a concrete function: no node, one node, two nodes.
BoundInputLists ==
    { << >> } \cup { << i >> : i \in NodeIds }
              \cup { << i, j >> : i \in NodeIds, j \in NodeIds \ {0} }

\* One SavedConcreteFunction.
ConcreteFunction(ids) == [bound_inputs |-> ids]

\* One function, or two (in the order of their names).
FunctionLists ==
    { << ConcreteFunction(b) >> : b \in BoundInputLists }
    \cup { << ConcreteFunction(b1), ConcreteFunction(b2) >> :
              b1 \in BoundInputLists, b2 \in { << i >> : i \in NodeIds } }

\* A graph of user objects and variables with concrete functions that
\* capture nodes, loaded without filters or with a list of one path.
ChooseFunctions ==
    /\ \E E \in ChainEdgeSets : children = ChildrenOf(E)
    /\ \E t \in [NodeIds -> PlainProtos] :
          /\ kinds = [i \in NodeIds |-> t[i][1]]
          /\ details = [i \in NodeIds |-> t[i][2]]
    /\ slot_variables = [i \in NodeIds |-> << >>]
    /\ concrete_functions \in FunctionLists
    /\ save_options = LoadOptions(FALSE, TRUE)
    /\ checkpoint = {}
    /\ Eagerly
    /\ filters \in {NoFilters} \cup OneLists
    /\ tags = NoTags

\* A graph of user objects and variables and a checkpoint with entries for
\* some of the nodes, restored in either mode or not at all.
ChooseCheckpoint ==
    /\ \E E \in ChainEdgeSets : children = ChildrenOf(E)
    /\ \E t \in [NodeIds -> PlainProtos] :
          /\ kinds = [i \in NodeIds |-> t[i][1]]
          /\ details = [i \in NodeIds |-> t[i][2]]
    /\ slot_variables = [i \in NodeIds |-> << >>]
    /\ concrete_functions \in { << >>, << ConcreteFunction(<< 2 >>) >> }
    /\ save_options \in { LoadOptions(FALSE, FALSE), LoadOptions(TRUE, FALSE),
                          LoadOptions(FALSE, TRUE) }
    /\ checkpoint \in SUBSET NodeIds
    /\ Eagerly
    /\ filters \in {NoFilters} \cup OneLists
    /\ tags \in { NoTags, Tags({"serve"}) }

\* What the proto of a node that a function may capture says of its kind; a
\* variable is made by the creator of a distribution strategy, or not.
CapturedProtos == { << "user_object", "" >>, << "variable", "" >>,
                    << "variable", "distributed" >>, << "asset", "" >>,
                    << "constant", "" >>, << "captured_tensor", "" >>,
                    << "resource", "" >>, << "function", "" >> }

\* The bound_inputs of the functions of such a model.
CaptureLists ==
    { << ConcreteFunction(<< i >>) >> : i \in NodeIds \ {0} }
    \cup { << ConcreteFunction(<< i, j >>) >> :
              i \in NodeIds \ {0}, j \in NodeIds \ {0} }
    \cup { << ConcreteFunction(<< i >>), ConcreteFunction(<< j >>) >> :
              i \in NodeIds \ {0}, j \in NodeIds \ {0} }

\* The root and the nodes at either end of an edge of E.
Touched(E) == {0} \cup { e[1] : e \in E } \cup { e[3] : e \in E }

\* A user object root with nodes of every kind a function captures, and
\* concrete functions that capture them; a node no edge touches is a plain
\* user object.
ChooseCaptures ==
    /\ \E E \in ChainEdgeSets :
          /\ children = ChildrenOf(E)
          /\ \E t \in [NodeIds -> CapturedProtos] :
                /\ t[0] = << "user_object", "" >>
                /\ \A i \in NodeIds \ Touched(E) : t[i] = << "user_object", "" >>
                /\ kinds = [i \in NodeIds |-> t[i][1]]
                /\ details = [i \in NodeIds |-> t[i][2]]
    /\ slot_variables = [i \in NodeIds |-> << >>]
    /\ concrete_functions \in CaptureLists
    /\ save_options = LoadOptions(FALSE, TRUE)
    /\ checkpoint = {}
    /\ Eagerly
    /\ filters \in {NoFilters} \cup OneLists
    /\ tags = NoTags

\* What the proto of a node of a restored model says: a user object, a
\* variable, a user object of a registered lookup table type.
RestoredProtos == { << "user_object", "" >>, << "variable", "" >>,
                    << "user_object", "lookup_table" >> }

\* A root with children "a" and "b", the nodes user objects, variables and
\* lookup tables, restored in graph mode or eagerly from a checkpoint whose
\* entries leave no, one or two restore ops each (none for the root); a
\* node no edge touches is a plain user object that leaves no restore op.
RestoreEdges == { << 0, <<"a">>, 1 >>, << 0, <<"b">>, 2 >> }

ChooseRestore ==
    /\ children = ChildrenOf(RestoreEdges)
    /\ \E t \in [NodeIds -> RestoredProtos] :
          /\ t[0] = << "user_object", "" >>
          /\ \A i \in NodeIds \ Touched(RestoreEdges) :
                t[i] = << "user_object", "" >>
          /\ kinds = [i \in NodeIds |-> t[i][1]]
          /\ details = [i \in NodeIds |-> t[i][2]]
    /\ slot_variables = [i \in NodeIds |-> << >>]
    /\ concrete_functions = << >>
    /\ save_options \in { LoadOptions(FALSE, FALSE), LoadOptions(TRUE, FALSE) }
    /\ checkpoint \in SUBSET NodeIds
    /\ eager \in BOOLEAN
    /\ restore_ops \in { r \in [NodeIds -> 0 .. 2] :
                            /\ r[0] = 0
                            /\ \A i \in NodeIds \ Touched(RestoreEdges) : r[i] = 0 }
    /\ filters \in {NoFilters}
                    \cup { f \in OneLists : f.keys = << << "root", "a" >> >> }
    /\ tags = NoTags

\* What the proto of a node of a model with callable objects says: a user
\* object, a user object of a registered type, a function.
CallableProtos == { << "user_object", "" >>, << "user_object", "optimizer" >>,
                    << "function", "" >> }

\* The child edges of such a model, some of them named "__call__".
CallEdgeSets ==
    { E \in SUBSET { << 0, <<"__call__">>, 1 >>, << 0, <<"a">>, 1 >>,
                     << 0, <<"b">>, 2 >>, << 1, <<"__call__">>, 2 >>,
                     << 2, <<"__call__">>, 1 >>, << 1, <<"a">>, 2 >> } :
        Functional(E) }

\* A graph of user objects and functions with "__call__" edges, loaded
\* without filters, with a list of at most one path or a mapping of one.
ChooseCallables ==
    /\ \E E \in CallEdgeSets : children = ChildrenOf(E)
    /\ \E t \in [NodeIds -> CallableProtos] :
          /\ kinds = [i \in NodeIds |-> t[i][1]]
          /\ details = [i \in NodeIds |-> t[i][2]]
    /\ slot_variables = [i \in NodeIds |-> << >>]
    /\ concrete_functions = << >>
    /\ save_options = LoadOptions(FALSE, TRUE)
    /\ checkpoint = {}
    /\ Eagerly
    /\ filters \in {NoFilters} \cup OneLists \cup OneDicts
    /\ tags = NoTags

\* The saved models and calls beyond graphs of plain user objects.
ChooseSaved ==
    \/ ChooseKinds
    \/ ChooseSlots
    \/ ChooseFunctions
    \/ ChooseCheckpoint

-----------------------------------------------------------------------------
(* The load call, step by step *)

\* What only the phases after node construction write.
later == <<wired, call_types, captured, restored, initializer_op,
           table_initializers, calls>>

Fail(e) == /\ error' = e
           /\ pc' = "failed"

\* A loader that rewires the captures of the functions before it wires the
\* edges.
CapturesBeforeEdges(phase) ==
    CASE phase = "init"       -> "filter"
      [] phase = "filter"     -> "load_nodes"
      [] phase = "load_nodes" -> "functions"
      [] phase = "functions"  -> "load_edges"
      [] phase = "load_edges" -> "restore"
      [] phase = "restore"    -> "return"

\* The phase Loader.__init__ and _load_all enter when a phase has completed:
\* _convert_node_paths_to_ints, _retrieve_all_filtered_nodes, _load_nodes,
\* _load_edges, _setup_functions_captures, _restore_checkpoint, in the order
\* of the statements that call them.
PhaseAfter(phase) ==
    CASE phase = "init"       -> "filter"
      [] phase = "filter"     -> "load_nodes"
      [] phase = "load_nodes" -> "load_edges"
      [] phase = "load_edges" -> "functions"
      [] phase = "functions"  -> "restore"
      [] phase = "restore"    -> "return"

\* The state of a call before its first statement.
Begin ==
    /\ heap = CallerHeap
    /\ next_obj = Len(CallerHeap) + 1
    /\ node_path_to_id = EmptyDict
    /\ loaded_nodes = EmptyDict
    /\ nodes_to_visit = << >>
    /\ all_filtered_nodes = {}
    /\ filtered_nodes = AllNodes
    /\ nodes = [i \in NodeIds |-> None]
    /\ node_setters = EmptyDict
    /\ created = << >>
    /\ wired = 0
    /\ call_types = {}
    /\ captured = EmptyDict
    /\ restored = {}
    /\ initializer_op = [i \in NodeIds |-> ""]
    /\ table_initializers = << >>
    /\ calls = << >>
    /\ expanded = [i \in NodeIds |-> 0]
    /\ result = EmptyDict
    /\ error = ""
    /\ pc = "call"

\* A graph of user objects, without slot variables or concrete functions,
\* loaded with experimental_skip_checkpoint.
Start ==
    /\ kinds = [i \in NodeIds |-> "user_object"]
    /\ slot_variables = [i \in NodeIds |-> << >>]
    /\ details = [i \in NodeIds |-> ""]
    /\ concrete_functions = << >>
    /\ save_options = LoadOptions(FALSE, TRUE)
    /\ checkpoint = {}
    /\ Eagerly
    /\ Begin

Init == ChooseInputs /\ Start

\* A test that accepts any tags that include those of the meta graph.
TagsNotIncluded(t) == t.given /\ ~(MetaTags \subseteq t.set)

\* tags is not None and set(tags) != set(meta_graph_def.meta_info_def.tags)
TagsMismatch(t) == t.given /\ t.set # MetaTags

\* load_internal up to the construction of the Loader: the tags, when
\* given, must equal the tags of the meta graph.
LoadInternal ==
    /\ pc = "call"
    /\ IF TagsMismatch(tags)
       THEN Fail("TagMismatchError")
       ELSE /\ pc' = "init"
            /\ UNCHANGED error
    /\ UNCHANGED <<inputs, heap, next_obj, node_path_to_id, loaded_nodes,
                   nodes_to_visit, all_filtered_nodes, filtered_nodes, nodes,
                   node_setters, created, expanded, result, later>>

\* Loader.__init__ up to the call of _retrieve_all_filtered_nodes, and the
\* first two statements of that method.
LoaderInit ==
    /\ pc = "init"
    /\ \E conv \in { convert_node_paths_to_ints } :
           IF conv.err # ""
           THEN /\ Fail(conv.err)
                /\ UNCHANGED <<node_path_to_id, loaded_nodes, nodes_to_visit>>
           ELSE /\ node_path_to_id' = conv.map
                /\ loaded_nodes' = IF filters.kind = "dict"
                                   THEN InitLoadedNodes(1, conv.map, EmptyDict)
                                   ELSE EmptyDict
                /\ nodes_to_visit' = filters.keys
                /\ pc' = PhaseAfter("init")
                /\ UNCHANGED error
    /\ UNCHANGED <<inputs, heap, next_obj,
                   all_filtered_nodes, filtered_nodes, nodes, node_setters,
                   created, expanded, result, later>>

\* One iteration of the while loop of _retrieve_all_filtered_nodes.
RetrieveStep ==
    /\ pc = "filter"
    /\ nodes_to_visit # << >>
    /\ LET node_path == Head(nodes_to_visit)
           node_id   == node_path_to_id[node_path]
           node      == LoadedNode(loaded_nodes, node_id)
       IN  IF AlreadyVisited(node_id, all_filtered_nodes)
           THEN /\ nodes_to_visit' = Tail(nodes_to_visit)
                /\ UNCHANGED <<all_filtered_nodes, loaded_nodes,
                               node_path_to_id, expanded, error, pc>>
           ELSE IF node # None /\ ~IsTrackable(heap, node)
           THEN /\ Fail("TypeErrorNotTrackable")
                /\ nodes_to_visit' = Tail(nodes_to_visit)
                /\ all_filtered_nodes' = all_filtered_nodes \cup {node_id}
                /\ UNCHANGED <<loaded_nodes, node_path_to_id, expanded>>
           ELSE LET st == VisitChildren(children[node_id], node, node_path,
                              [ln |-> loaded_nodes, p2i |-> node_path_to_id,
                               q |-> Tail(nodes_to_visit)])
                IN  /\ all_filtered_nodes' = all_filtered_nodes \cup {node_id}
                    /\ expanded' = [expanded EXCEPT ![node_id] = @ + 1]
                    /\ loaded_nodes' = st.ln
                    /\ node_path_to_id' = st.p2i
                    /\ nodes_to_visit' = st.q
                    /\ UNCHANGED <<error, pc>>
    /\ UNCHANGED <<inputs, heap, next_obj,
                   filtered_nodes, nodes, node_setters, created, result, later>>

\* The end of _retrieve_all_filtered_nodes: the queue is empty (or there
\* are no filters at all).
RetrieveDone ==
    /\ pc = "filter"
    /\ nodes_to_visit = << >>
    /\ filtered_nodes' = IF filters.kind = "none" THEN AllNodes
                         ELSE FilteredResult(all_filtered_nodes)
    /\ pc' = PhaseAfter("filter")
    /\ UNCHANGED <<inputs, heap, next_obj,
                   node_path_to_id, loaded_nodes, nodes_to_visit,
                   all_filtered_nodes, nodes, node_setters, created, expanded,
                   result, error, later>>

\* Loader._load_nodes
LoadNodes ==
    /\ pc = "load_nodes"
    /\ \E st \in { load_nodes(iter_all_nodes(filtered_nodes)) } :
           IF st.err # ""
           THEN /\ Fail(st.err)
                /\ UNCHANGED <<heap, next_obj, nodes, node_setters, created>>
           ELSE /\ nodes' = [i \in NodeIds |-> Get(st.nodes, i)]
                /\ node_setters' = st.setters
                /\ heap' = st.heap
                /\ next_obj' = st.next
                /\ created' = st.created
                /\ pc' = PhaseAfter("load_nodes")
                /\ UNCHANGED error
    /\ UNCHANGED <<inputs, node_path_to_id,
                   loaded_nodes, nodes_to_visit, all_filtered_nodes,
                   filtered_nodes, expanded, result, later>>

\* Loader._load_edges
LoadEdges ==
    /\ pc = "load_edges"
    /\ \E st \in { load_edges } :
           IF st.err # ""
           THEN /\ Fail(st.err)
                /\ UNCHANGED <<heap, next_obj, created, wired, call_types>>
           ELSE /\ heap' = st.heap
                /\ next_obj' = st.next
                /\ created' = st.created
                /\ wired' = st.wired
                /\ call_types' = st.call_types
                /\ pc' = PhaseAfter("load_edges")
                /\ UNCHANGED error
    /\ UNCHANGED <<inputs, node_path_to_id,
                   loaded_nodes, nodes_to_visit, all_filtered_nodes,
                   filtered_nodes, nodes, node_setters, expanded, result,
                   captured, restored, initializer_op, table_initializers,
                   calls>>

\* Loader._setup_functions_structures and _setup_functions_captures: the
\* captures of the functions before the failing one stay set.
SetupFunctions ==
    /\ pc = "functions"
    /\ \E st \in { setup_functions_captures } :
           /\ captured' = st.captured
           /\ IF st.err # ""
              THEN Fail(st.err)
              ELSE /\ pc' = PhaseAfter("functions")
                   /\ UNCHANGED error
    /\ UNCHANGED <<inputs, heap, next_obj,
                   node_path_to_id, loaded_nodes, nodes_to_visit,
                   all_filtered_nodes, filtered_nodes, nodes, node_setters,
                   created, expanded, result, wired, call_types, restored,
                   initializer_op, table_initializers, calls>>

\* The end of Loader.__init__: unless experimental_skip_checkpoint is set,
\* the checkpoint is restored, the status of the restore is asserted and,
\* in graph mode, the restore ops are wired to the objects they restore.
\* (No node of a restoring load is a CapturableResource, so the loop that
\* calls _initialize finds nothing.)
RestoreCheckpoint ==
    /\ pc = "restore"
    /\ IF save_options.experimental_skip_checkpoint
       THEN /\ pc' = PhaseAfter("restore")
            /\ UNCHANGED <<restored, initializer_op, table_initializers,
                           error>>
       ELSE /\ restored' = Matched
            /\ IF restore_checkpoint # ""
               THEN /\ Fail(restore_checkpoint)
                    /\ UNCHANGED <<initializer_op, table_initializers>>
               ELSE \E st \in { wire_restore_ops } :
                       /\ initializer_op' = st.init
                       /\ table_initializers' = st.tables
                       /\ IF st.err # ""
                          THEN Fail(st.err)
                          ELSE /\ pc' = PhaseAfter("restore")
                               /\ UNCHANGED error
    /\ UNCHANGED <<inputs, heap, next_obj,
                   node_path_to_id, loaded_nodes, nodes_to_visit,
                   all_filtered_nodes, filtered_nodes, nodes, node_setters,
                   created, expanded, result, wired, call_types, captured,
                   calls>>

\* root.graph_debug_info, root.tensorflow_version and
\* root.tensorflow_git_version are assigned.
RootMetadata(h, root) ==
    SetAttr(SetAttr(SetAttr(h, root, <<"graph_debug_info">>, Metadata),
                    root, <<"tensorflow_version">>, Metadata),
            root, <<"tensorflow_git_version">>, Metadata)

\* load_internal after the Loader is built: attributes are set on
\* loader.get(0), then the mapping is returned.
Return ==
    /\ pc = "return"
    /\ IF nodes[0] = None
       THEN /\ Fail("AttributeError")
            /\ UNCHANGED <<result, heap>>
       ELSE /\ heap' = RootMetadata(heap, nodes[0])
            /\ result' = Returned
            /\ pc' = "done"
            /\ UNCHANGED error
    /\ UNCHANGED <<inputs, next_obj,
                   node_path_to_id, loaded_nodes, nodes_to_visit,
                   all_filtered_nodes, filtered_nodes, nodes, node_setters,
                   created, expanded, later>>

Next ==
    \/ LoadInternal
    \/ LoaderInit
    \/ RetrieveStep
    \/ RetrieveDone
    \/ LoadNodes
    \/ LoadEdges
    \/ SetupFunctions
    \/ RestoreCheckpoint
    \/ Return

Spec == Init /\ [][Next]_vars

\* The loads of saved models with nodes of several kinds, slot variables,
\* concrete functions and checkpoints.
SavedInit == ChooseSaved /\ Begin

SavedSpec == SavedInit /\ [][Next]_vars

-----------------------------------------------------------------------------
(* _WrapperFunction._call_flat and _unused_handle *)

\* The context of one call: ds_context.get_replica_context() is not None,
\* and values_util.is_saving_non_distributed().
Contexts == [replica : BOOLEAN, saving : BOOLEAN]

\* A test that forgets the saving of a non-distributed model.
InReplicaOnly(ctx) == ctx.replica

\* ds_context.get_replica_context() is not None or
\* values_util.is_saving_non_distributed()
ResolvesToHandle(ctx) == ctx.replica \/ ctx.saving

\* get_handle(x): x.handle if x is a distributed variable, else x
get_handle(h, x) ==
    IF is_distributed_variable(h, x) THEN Capture(x.of, "handle") ELSE x

\* _unused_handle(): a new resource placeholder under a control dependency
\* on Assert(placeholder_with_default(False)).
unused_handle == [NewObject("placeholder") EXCEPT !.trackable = FALSE]

\* list(map(get_handle, captured_inputs)) or
\* list(map(get_unused_handle, captured_inputs)), from position k on.
\* st = [heap, next, passed].
RECURSIVE MapCaptures(_, _, _, _)
MapCaptures(captured_inputs, k, to_handle, state) ==
    Local(state, LAMBDA st :
    IF k > Len(captured_inputs) THEN st
    ELSE LET x == captured_inputs[k]
         IN  IF to_handle
             THEN MapCaptures(captured_inputs, k + 1, to_handle,
                      [st EXCEPT !.passed = Append(@, get_handle(st.heap, x))])
             ELSE IF is_distributed_variable(st.heap, x)
             THEN MapCaptures(captured_inputs, k + 1, to_handle,
                      [heap   |-> Put(st.heap, st.next, unused_handle),
                       next   |-> st.next + 1,
                       passed |-> Append(st.passed,
                                         Capture(st.next, "object"))])
             ELSE MapCaptures(captured_inputs, k + 1, to_handle,
                      [st EXCEPT !.passed = Append(@, x)]))

\* The captured inputs _call_flat hands to ConcreteFunction._call_flat.
call_flat(captured_inputs, ctx) ==
    MapCaptures(captured_inputs, 1, ResolvesToHandle(ctx),
                [heap |-> heap, next |-> next_obj, passed |-> << >>])

\* One call of a restored function in some context.
CallFlat ==
    /\ pc = "done"
    /\ Len(calls) < MaxCalls
    /\ \E f \in DOMAIN captured, ctx \in Contexts :
          \E st \in { call_flat(captured[f], ctx) } :
             /\ heap' = st.heap
             /\ next_obj' = st.next
             /\ calls' = Append(calls, [fn |-> f, context |-> ctx,
                                        captured_inputs |-> st.passed])
    /\ UNCHANGED <<inputs, node_path_to_id, loaded_nodes, nodes_to_visit,
                   all_filtered_nodes, filtered_nodes, nodes, node_setters,
                   created, wired, call_types, captured, restored,
                   initializer_op, table_initializers, expanded, result,
                   error, pc>>

\* The objects of a model loaded inside a distribution strategy scope: the
\* root, and two nodes that are distributed variables, variables or (the
\* second) a constant.
LoadedHeaps ==
    { CallerHeap \o << NewObject("user_object"), NewObject(c1), NewObject(c2) >> :
        c1 \in {"distributed_variable", "variable"},
        c2 \in {"distributed_variable", "variable", "constant"} }

\* The concrete functions of that model.
LoadedFunctions ==
    { << ConcreteFunction(<< 1 >>) >>,
      << ConcreteFunction(<< 1, 2 >>) >>,
      << ConcreteFunction(<< 2, 1 >>) >>,
      << ConcreteFunction(<< 1 >>), ConcreteFunction(<< 2 >>) >> }

\* The state after load has returned the model, the captures of its
\* functions set by _setup_functions_captures.
CallInit ==
    /\ children = ChildrenOf({ << 0, <<"a">>, 1 >>, << 0, <<"b">>, 2 >> })
    /\ heap \in LoadedHeaps
    /\ next_obj = Len(CallerHeap) + 4
    /\ nodes = [i \in NodeIds |-> IF i <= 2 THEN Len(CallerHeap) + 1 + i
                                   ELSE None]
    /\ kinds = [i \in NodeIds |-> IF i \in {1, 2} /\ heap[nodes[i]].cls = "constant"
                                   THEN "constant"
                                   ELSE IF i \in {1, 2} THEN "variable"
                                   ELSE "user_object"]
    /\ slot_variables = [i \in NodeIds |-> << >>]
    /\ details = [i \in NodeIds |-> ""]
    /\ concrete_functions \in LoadedFunctions
    /\ save_options = LoadOptions(FALSE, TRUE)
    /\ checkpoint = {}
    /\ Eagerly
    /\ filters = NoFilters
    /\ tags = NoTags
    /\ node_path_to_id = EmptyDict
    /\ loaded_nodes = EmptyDict
    /\ nodes_to_visit = << >>
    /\ all_filtered_nodes = {}
    /\ filtered_nodes = AllNodes
    /\ node_setters = [i \in NodeIds |-> "setattr"]
    /\ created = << >>
    /\ wired = 2
    /\ call_types = {}
    /\ captured = SetupCaptures(1, [err |-> "", captured |-> EmptyDict]).captured
    /\ restored = {}
    /\ initializer_op = [i \in NodeIds |-> ""]
    /\ table_initializers = << >>
    /\ calls = << >>
    /\ expanded = [i \in NodeIds |-> 0]
    /\ result = [k \in { << "root" >> } |-> nodes[0]]
    /\ error = ""
    /\ pc = "done"

CallNext == CallFlat

CallSpec == CallInit /\ [][CallNext]_vars

\* The loads of models with "__call__" edges.
CallableInit == ChooseCallables /\ Begin

CallableSpec == CallableInit /\ [][Next]_vars

\* The loads that restore a checkpoint, in graph mode or eagerly.
RestoreInit == ChooseRestore /\ Begin

RestoreSpec == RestoreInit /\ [][Next]_vars

\* The loads of models whose functions capture nodes of every kind.
CaptureInit == ChooseCaptures /\ Begin

CaptureSpec == CaptureInit /\ [][Next]_vars

\* The call runs on one thread and executes its next statement until it
\* returns or raises.
CyclicInit == ChooseCyclic /\ Start

FairSpec == CyclicInit /\ [][Next]_vars /\ WF_vars(Next)

-----------------------------------------------------------------------------
(* What the properties speak of *)

\* The load is a partial load: filters were passed (a list or a mapping).
Partial == filters.kind # "none"

\* The requested paths.
Requested == Range(filters.keys)

Done == pc = "done"

\* The ids of the children of node i.
Targets(i) == { children[i][k].node_id : k \in DOMAIN children[i] }

\* The closure of a set of node ids under child edges.
RECURSIVE ReachableFrom(_)
ReachableFrom(S) ==
    LET T == S \cup UNION { Targets(i) : i \in S }
    IN  IF T = S THEN S ELSE ReachableFrom(T)

\* The node a path stands for: from node i, each segment in turn names the
\* child edge to follow; Unresolved when a segment names no child.
Unresolved == 0 - 1

RECURSIVE PathNode(_, _)
PathNode(i, segments) ==
    IF segments = << >> THEN i
    ELSE LET hits == { k \in DOMAIN children[i] :
                         children[i][k].local_name = << Head(segments) >> }
         IN  IF hits = {} THEN Unresolved
             ELSE PathNode(children[i][Min(hits)].node_id, Tail(segments))

StartsAtRoot(path) == path # << >> /\ path[1] = "root"

Resolve(path) ==
    IF StartsAtRoot(path) THEN PathNode(0, Tail(path)) ELSE Unresolved

\* The node ids the requested paths stand for.
RequestedIds == { Resolve(path) : path \in Requested }

-----------------------------------------------------------------------------
(* Properties *)

\* C1: in the mapping a partial load returns, two requested paths that
\* resolve to the same node id are mapped to the same object.
C1_SameNodeSameObject ==
    (Done /\ Partial /\ filters.keys # << >>) =>
        \A p1 \in Requested, p2 \in Requested :
            Resolve(p1) = Resolve(p2) => result[p1] = result[p2]

\* C2: the keys of the mapping a partial load returns are exactly the
\* requested paths.
C2_KeysAreRequestedPaths ==
    (Done /\ Partial) => DOMAIN result = Requested

\* C3: a load whose requested paths include "root" holds an object for every
\* node of the graph, as a load without filters does.
C3_RootLoadsEveryNode ==
    (Done /\ (~Partial \/ <<"root">> \in Requested)) =>
        /\ filtered_nodes = AllNodes
        /\ \A i \in NodeIds : nodes[i] \in DOMAIN heap

\* C3: "root" was requested and a node no edge leads to from the root
\* holds an object.
C3_Witness ==
    /\ Done /\ Partial /\ <<"root">> \in Requested
    /\ \E i \in NodeIds : i \notin ReachableFrom({0}) /\ nodes[i] # None

\* C4: when filters are given, the node ids selected are those reachable
\* over child edges from the nodes the requested paths resolve to, unless
\* node 0 is among them, and then every node is selected.
C4_SelectedIsClosure ==
    (Partial
       /\ pc \in {"load_nodes", "load_edges", "functions", "restore",
                  "return", "done"}) =>
        filtered_nodes = IF 0 \in ReachableFrom(RequestedIds)
                         THEN AllNodes
                         ELSE Only(ReachableFrom(RequestedIds))

\* C5: whatever the graph, cyclic or with shared nodes, no node id is
\* expanded twice by filter selection, and the load comes to its end: it
\* returns or fails, with the work queue empty when it goes on to wiring.
C5_Terminates ==
    /\ [](\A i \in NodeIds : expanded[i] <= 1)
    /\ [](pc \in {"load_nodes", "load_edges", "functions", "restore",
                  "return", "done"} => nodes_to_visit = << >>)
    /\ <>(pc \in {"done", "failed"})

\* C5: a partial load of a graph in which a node is its own descendant has
\* returned, the node expanded once, its edges wired.
C5_Witness ==
    /\ Done /\ Partial
    /\ \E i \in NodeIds :
          /\ i \in ReachableFrom(Targets(i))
          /\ expanded[i] = 1
          /\ \A k \in DOMAIN children[i] :
                Has(heap[nodes[i]].attrs, children[i][k].local_name)

\* No node is its own descendant.
Acyclic == \A i \in NodeIds : i \notin ReachableFrom(Targets(i))

\* The attribute of a loaded object under a name, None when it has none.
Attribute(obj, name) ==
    IF obj \in DOMAIN heap /\ Has(heap[obj].attrs, name)
    THEN heap[obj].attrs[name] ELSE None

\* C6: after a load of a graph without cycles, for every child edge (n, c)
\* of every node i, attribute n of the object of i is the object of c, and
\* an attribute that holds the object of a node is a declared child edge.
C6_WalkReproducesGraph ==
    (Done /\ ~Partial /\ Acyclic) =>
        \A i \in NodeIds :
            /\ \A k \in DOMAIN children[i] :
                  Attribute(nodes[i], children[i][k].local_name)
                      = nodes[children[i][k].node_id]
            /\ \A n \in DOMAIN heap[nodes[i]].attrs, c \in NodeIds :
                  heap[nodes[i]].attrs[n] = nodes[c] =>
                      Reference(n, c) \in Range(children[i])

\* C7: after a partial load in which a path P and its extension P.n by the
\* local name n of a child edge of P's node are both requested, attribute n
\* of the object returned for P is the object returned for P.n.
C7_ExtensionIsAttribute ==
    (Done /\ Partial) =>
        \A P \in Requested : \A k \in DOMAIN children[Resolve(P)] :
            LET n == children[Resolve(P)][k].local_name
            IN  (Len(n) = 1 /\ (P \o n) \in Requested) =>
                    Attribute(result[P], n) = result[P \o n]

\* The entries of a mapping that supply an object.
SuppliedEntries == { k \in DOMAIN filters.keys : filters.vals[k].node # None }

\* C8: when a mapping supplies an object for a requested path P, no object
\* is ever constructed for the node id of P, and the object returned under P
\* is the supplied one.
C8_SuppliedObjectReused ==
    filters.kind = "dict" =>
        \A k \in SuppliedEntries :
            /\ \A c \in DOMAIN created :
                  created[c].node_id # Resolve(filters.keys[k])
            /\ Done => result[filters.keys[k]] = filters.vals[k].node

\* C9: when a mapping supplies, for a requested path, an object that is no
\* Trackable, the load does not return: it fails, and a failure of filter
\* selection is a TypeErrorNotTrackable.
C9_NonTrackableRejected ==
    (filters.kind = "dict"
       /\ \E k \in SuppliedEntries : ~IsTrackable(heap, filters.vals[k].node)) =>
        /\ ~Done
        /\ (pc = "failed" /\ all_filtered_nodes # {}) =>
               error = "TypeErrorNotTrackable"

\* A requested path does not start with "root".
SomeMalformed == \E path \in Requested : ~StartsAtRoot(path)

\* C10, as stated: a requested path that does not start with "root" makes
\* the load fail with MalformedPathError.
C10_MalformedPathError ==
    (SomeMalformed /\ pc \in {"done", "failed"}) =>
        (pc = "failed" /\ error = "MalformedPathError")

\* The first requested path, in the order of the filters, that does not
\* resolve.
FirstUnresolved ==
    filters.keys[Min({ k \in DOMAIN filters.keys :
                         Resolve(filters.keys[k]) = Unresolved })]

\* C10, amended: a requested path that does not start with "root" makes the
\* load fail before any node is selected, with TagMismatchError when the
\* tags passed are not those of the meta graph, and otherwise with the error
\* of the first requested path that does not resolve: UnknownChildError
\* when that path starts with "root", MalformedPathError when it does not.
C10_FirstErrorWins ==
    (SomeMalformed /\ pc \notin {"call", "init"}) =>
        /\ pc = "failed"
        /\ all_filtered_nodes = {} /\ created = << >>
        /\ error = IF tags.given /\ tags.set # MetaTags THEN "TagMismatchError"
                   ELSE IF StartsAtRoot(FirstUnresolved) THEN "UnknownChildError"
                   ELSE "MalformedPathError"

\* C10: the load has failed with MalformedPathError on its second
\* requested path, the first one having been resolved.
C10_Witness ==
    /\ pc = "failed" /\ error = "MalformedPathError"
    /\ Len(filters.keys) = 2
    /\ Resolve(filters.keys[1]) # Unresolved
    /\ ~StartsAtRoot(filters.keys[2])

\* A requested path starts with "root" and one of its later segments is
\* not the local name of a child of the node the segments before it lead to.
SomeUnknownChild ==
    \E path \in Requested : StartsAtRoot(path) /\ Resolve(path) = Unresolved

\* C11, as stated: a requested path that starts with "root" and has a later
\* segment that names no child makes the load fail with UnknownChildError.
C11_UnknownChildError ==
    (SomeUnknownChild /\ pc \in {"done", "failed"}) =>
        (pc = "failed" /\ error = "UnknownChildError")

\* C11, amended: such a path makes the load fail before any node is
\* selected or constructed; the error is TagMismatchError when the tags
\* passed are not those of the meta graph, and otherwise the error of the
\* first requested path that does not resolve, which is UnknownChildError
\* unless that path does not start with "root".
C11_FirstUnresolvedPathFails ==
    (SomeUnknownChild /\ pc \notin {"call", "init"}) =>
        /\ pc = "failed"
        /\ all_filtered_nodes = {} /\ created = << >> /\ result = EmptyDict
        /\ (tags.given /\ tags.set # MetaTags) => error = "TagMismatchError"
        /\ (~(tags.given /\ tags.set # MetaTags)
              /\ StartsAtRoot(FirstUnresolved)) => error = "UnknownChildError"
        /\ (~(tags.given /\ tags.set # MetaTags)
              /\ ~StartsAtRoot(FirstUnresolved)) => error = "MalformedPathError"

\* C11: the load has failed with UnknownChildError on a path of three
\* segments whose second segment names a child and whose third does not.
C11_Witness ==
    /\ pc = "failed" /\ error = "UnknownChildError"
    /\ \E path \in Requested :
          /\ Len(path) = 3
          /\ Resolve(SubSeq(path, 1, 2)) # Unresolved
          /\ Resolve(path) = Unresolved

\* C13: a load fails with TagMismatchError exactly when tags are passed and
\* the set of the tags passed is not the set of tags of the meta graph; it
\* then fails before anything else is done.  With tags omitted or equal it
\* never fails with TagMismatchError.
C13_TagMismatchExactly ==
    /\ (pc # "call") =>
          ((tags.given /\ tags.set # MetaTags)
             <=> (pc = "failed" /\ error = "TagMismatchError"))
    /\ (error = "TagMismatchError") =>
          (node_path_to_id = EmptyDict /\ created = << >>)

\* C13: the load has failed with TagMismatchError for tags that include
\* those of the meta graph and one more.
C13_Witness ==
    /\ pc = "failed" /\ error = "TagMismatchError"
    /\ MetaTags \subseteq tags.set /\ tags.set # MetaTags

\* The node ids selected for loading.
Selected == IF filtered_nodes.all THEN NodeIds ELSE filtered_nodes.ids

\* The nodes that are slot variables of a selected node.
SlotTargets ==
    UNION { { slot_variables[i][k].slot_variable_node_id :
                k \in DOMAIN slot_variables[i] } : i \in Selected }

\* The kind of node i is none of the eight recognized kinds.
UnknownKind(i) == i \in NodeIds /\ kinds[i] \notin KnownKinds

\* The error the construction of node i from its proto ends with, "" when
\* the node can be constructed.
ConstructionError(i) ==
    IF UnknownKind(i) THEN "UnknownNodeKindError"
    ELSE IF kinds[i] = "variable" /\ details[i] = "invalid"
    THEN "InvalidVariableConfig"
    ELSE ""

\* The selected nodes the first construction pass has to construct and
\* cannot.
Broken ==
    { i \in Selected : /\ i \notin SlotTargets
                       /\ LoadedNode(loaded_nodes, i) = None
                       /\ ConstructionError(i) # "" }

RECURSIVE BoundFrom(_)
BoundFrom(k) ==
    IF k > Len(concrete_functions) THEN << >>
    ELSE concrete_functions[k].bound_inputs \o BoundFrom(k + 1)

AllBound == BoundFrom(1)

\* Node i holds no object.
NotMaterialized(i) == nodes[i] = None

\* Node i holds an object a function can capture: a variable, an asset, a
\* tensor or a resource.
Capturable(i) ==
    /\ nodes[i] \in DOMAIN heap
    /\ heap[nodes[i]].cls \in {"variable", "distributed_variable", "asset",
                                "constant", "captured_tensor", "resource"}

\* The positions of the bound inputs that cannot be resolved.
Unresolvable == { k \in DOMAIN AllBound : ~Capturable(AllBound[k]) }

\* The load got as far as capture rewiring.
PastWiring ==
    \/ pc \in {"restore", "return", "done"}
    \/ pc = "failed" /\ error \in {"MissingDependencyError",
                                     "CaptureResolutionError",
                                     "NoMatchError", "UnmatchedObjectsError"}

\* C14, as stated: in a filtered load (that got as far as capture
\* rewiring) every concrete function is visited, and the load fails with
\* MissingDependencyError if and only if some concrete function has a bound
\* input whose node was not materialized; a load of all nodes never fails
\* with MissingDependencyError.
C14_MissingDependencyIff ==
    /\ (Partial /\ PastWiring /\ pc \in {"done", "failed"}) =>
          ((pc = "failed" /\ error = "MissingDependencyError")
             <=> \E k \in DOMAIN AllBound : NotMaterialized(AllBound[k]))
    /\ (Partial /\ pc = "done") =>
          DOMAIN captured = DOMAIN concrete_functions
    /\ (~Partial) => error # "MissingDependencyError"

\* C14, amended: a filtered load that gets as far as capture rewiring
\* visits the concrete functions of the serialized graph in the order of
\* their names, every one of them unless a bound input cannot be resolved;
\* it fails at the first bound input that cannot be resolved, with
\* MissingDependencyError if and only if the node of that bound input holds
\* no object, and with CaptureResolutionError if it holds an object that is
\* no variable, asset, tensor or resource.  A load of all nodes never fails
\* with MissingDependencyError.
C14_FirstUnresolvableCapture ==
    /\ PastWiring =>
          /\ (pc # "failed") =>
                (Unresolvable = {} /\ DOMAIN captured = DOMAIN concrete_functions)
          /\ (error \in {"MissingDependencyError", "CaptureResolutionError"})
                <=> (Unresolvable # {})
          /\ (Partial /\ Unresolvable # {}) =>
                (error = "MissingDependencyError"
                   <=> NotMaterialized(AllBound[Min(Unresolvable)]))
    /\ (~Partial \/ filtered_nodes.all) => error # "MissingDependencyError"

\* C14: a filtered load has rewired the captures of its first function
\* and failed with MissingDependencyError at the second, whose bound input
\* is a node that was not selected.
C14_Witness ==
    /\ Partial /\ pc = "failed" /\ error = "MissingDependencyError"
    /\ Len(concrete_functions) = 2
    /\ DOMAIN captured = {1} /\ captured[1] # << >>
    /\ \E k \in DOMAIN concrete_functions[2].bound_inputs :
          concrete_functions[2].bound_inputs[k] \notin Selected

\* The errors of the documented taxonomy.
Taxonomy ==
    {"MalformedPathError", "UnknownChildError", "TypeErrorNotTrackable",
     "UnknownNodeKindError", "InvalidVariableConfig", "CaptureResolutionError",
     "NoMatchError", "UnmatchedObjectsError", "UnsupportedRestoreTarget",
     "TagMismatchError", "MissingDependencyError"}

\* The number of child edges of the nodes of a set.
RECURSIVE EdgeCount(_)
EdgeCount(S) ==
    IF S = {} THEN 0
    ELSE Len(children[Min(S)]) + EdgeCount(S \ {Min(S)})

\* C15: a load either returns after node construction, edge wiring, capture
\* rewiring and checkpoint restore have completed for every materialized
\* node, or raises one error of the documented taxonomy; it never fails
\* with an error outside the taxonomy.
C15_ReturnsWholeOrTaxonomyError ==
    /\ pc = "failed" => error \in Taxonomy
    /\ pc = "done" =>
          /\ error = ""
          /\ \A i \in Selected : nodes[i] \in DOMAIN heap
          /\ wired = EdgeCount(Selected)
          /\ DOMAIN captured = DOMAIN concrete_functions
          /\ ~save_options.experimental_skip_checkpoint => restored = Matched

\* The nodes that hold a variable.
LoadedVariables ==
    { i \in NodeIds : /\ nodes[i] \in DOMAIN heap
                      /\ heap[nodes[i]].cls \in {"variable",
                                                 "distributed_variable"} }

\* The load got as far as the assertion on the restored checkpoint.
PastRestore ==
    \/ pc \in {"return", "done"}
    \/ pc = "failed" /\ error \in {"NoMatchError", "UnmatchedObjectsError"}

AllowPartialMode ==
    /\ ~save_options.experimental_skip_checkpoint
    /\ save_options.allow_partial_checkpoint

StrictMode ==
    /\ ~save_options.experimental_skip_checkpoint
    /\ ~save_options.allow_partial_checkpoint

IsUnusedHandle(x) ==
    x.as = "object" /\ x.of \in DOMAIN heap /\ heap[x.of].cls = "placeholder"

\* C18: at every call of a restored function, each captured distributed
\* variable is resolved by the context of that call alone: to its handle
\* inside a replica context or while a non-distributed model is saved, and
\* otherwise to a placeholder made for this call and this capture; the
\* captures that are not distributed are passed as they are, and no call
\* changes the captures the function stores.
C18_ResolvedPerCall ==
    /\ [](\A k \in DOMAIN calls :
            LET call   == calls[k]
                stored == captured[call.fn]
            IN  /\ Len(call.captured_inputs) = Len(stored)
                /\ \A i \in DOMAIN stored :
                      IF ~is_distributed_variable(heap, stored[i])
                      THEN call.captured_inputs[i] = stored[i]
                      ELSE IF call.context.replica \/ call.context.saving
                      THEN call.captured_inputs[i] = Capture(stored[i].of, "handle")
                      ELSE /\ IsUnusedHandle(call.captured_inputs[i])
                           /\ \A k2 \in DOMAIN calls :
                                 \A j \in DOMAIN calls[k2].captured_inputs :
                                    (calls[k2].captured_inputs[j]
                                       = call.captured_inputs[i])
                                    => (k2 = k /\ j = i))
    /\ [][captured' = captured]_vars

\* C18: one function that captures a distributed variable has been called
\* three times, outside a replica context, inside one, and outside again,
\* and the three calls got a placeholder, the handle, and another
\* placeholder.
C18_Witness ==
    /\ Len(calls) = 3
    /\ calls[1].fn = calls[2].fn /\ calls[2].fn = calls[3].fn
    /\ is_distributed_variable(heap, captured[calls[1].fn][1])
    /\ ~calls[1].context.replica /\ ~calls[1].context.saving
    /\ calls[2].context.replica
    /\ ~calls[3].context.replica /\ ~calls[3].context.saving
    /\ IsUnusedHandle(calls[1].captured_inputs[1])
    /\ calls[2].captured_inputs[1].as = "handle"
    /\ IsUnusedHandle(calls[3].captured_inputs[1])
    /\ calls[3].captured_inputs[1] # calls[1].captured_inputs[1]

\* Every selected node holds its object.
AllConstructed == \A i \in Selected : nodes[i] \in DOMAIN heap

\* C19: the phases of one load run in the order path resolution, filter
\* selection, node construction, edge wiring, capture rewiring, checkpoint
\* restore.  A node is selected only when every requested path is resolved;
\* a node gets its object only when the selection is complete and nothing
\* is wired, rewired or restored yet; an edge is wired only when every
\* selected node holds its object and no capture is rewired; a capture is
\* rewired only when every edge is wired and nothing is restored; a
\* checkpoint value is applied only when every function has its captures.
C19_PhaseOrder ==
    /\ [][all_filtered_nodes' # all_filtered_nodes =>
            /\ Requested \subseteq DOMAIN node_path_to_id
            /\ nodes = [i \in NodeIds |-> None]]_vars
    /\ [][nodes' # nodes =>
            /\ nodes_to_visit = << >>
            /\ Requested \subseteq DOMAIN node_path_to_id
            /\ wired = 0 /\ captured = EmptyDict /\ restored = {}]_vars
    /\ [][wired' # wired =>
            /\ AllConstructed /\ nodes' = nodes
            /\ captured = EmptyDict /\ restored = {}]_vars
    /\ [][captured' # captured =>
            /\ AllConstructed /\ nodes' = nodes
            /\ wired = EdgeCount(Selected) /\ wired' = wired
            /\ restored = {}]_vars
    /\ [][restored' # restored =>
            /\ AllConstructed /\ nodes' = nodes
            /\ wired = EdgeCount(Selected) /\ wired' = wired
            /\ DOMAIN captured = DOMAIN concrete_functions
            /\ captured' = captured]_vars

\* C19: a load of a model with edges, a function that captures a variable
\* and a checkpoint has returned: nodes were constructed, edges wired, the
\* captures rewired and a checkpoint value applied.
C19_Witness ==
    /\ pc = "done"
    /\ created # << >>
    /\ wired > 0
    /\ \E f \in DOMAIN captured : captured[f] # << >>
    /\ restored # {}

\* The slot variable references of the selected nodes that name node t, with
\* their owners.
ReferencesTo(t) ==
    { << o, k >> \in Selected \X (1 .. NumNodes) :
         /\ k \in DOMAIN slot_variables[o]
         /\ slot_variables[o][k].slot_variable_node_id = t }

\* Node construction has completed.
PastConstruction ==
    pc \in {"load_edges", "functions", "restore", "return", "done"}

\* C20: every object made for a slot variable that a selected node refers
\* to is made in the second pass, by add_slot of the object of an owner that
\* refers to it, with the object of the referenced original variable and the
\* referenced slot name, and the owner's and the variable's objects exist
\* before it; the first pass makes no object for such a node; and when node
\* construction has completed every such node has got its object this way.
C20_SlotVariablesSecondPass ==
    /\ \A n \in DOMAIN created :
          LET e == created[n]
          IN  (e.node_id \in SlotTargets /\ e.how \in {"recreate", "add_slot"}) =>
                 /\ e.how = "add_slot"
                 /\ \E r \in ReferencesTo(e.node_id) :
                       LET sv == slot_variables[r[1]][r[2]]
                       IN  /\ e.slot_name = sv.slot_name
                           /\ e.by = nodes[r[1]]
                           /\ e.by \in DOMAIN heap /\ e.by < e.obj
                           /\ e.var = nodes[sv.original_variable_node_id]
                           /\ e.var \in DOMAIN heap /\ e.var < e.obj
                           /\ \A m \in DOMAIN created :
                                 created[m].obj \in {e.by, e.var} => m < n
    /\ PastConstruction =>
          \A t \in SlotTargets :
             \E n \in DOMAIN created :
                /\ created[n].node_id = t /\ created[n].how = "add_slot"
                /\ nodes[t] = created[n].obj

\* C20: a load has returned in which the owner and the variable were made
\* in the first pass and the slot variable after them by add_slot of the
\* owner.
C20_Witness ==
    /\ pc = "done"
    /\ \E n \in DOMAIN created, o \in DOMAIN created, v \in DOMAIN created :
          /\ created[n].how = "add_slot"
          /\ created[n].node_id \in SlotTargets
          /\ created[o].how = "recreate" /\ created[o].obj = created[n].by
          /\ created[v].how = "recreate" /\ created[v].obj = created[n].var
          /\ o < n /\ v < n
          /\ heap[created[n].by].cls = "optimizer"
          /\ created[n].slot_name = "m"

\* The constructions that assign an object to a node id.
Assigning == {"recreate", "add_slot", "dummy_root"}

\* C21: during one load each node id is assigned an object once: no
\* construction of either pass assigns an object to a node id that already
\* holds one, constructed earlier in the load or supplied by the caller.
C21_AssignedOnce ==
    \A n \in DOMAIN created :
       LET e == created[n]
       IN  e.how \in Assigning =>
              /\ \A m \in 1 .. (n - 1) :
                    created[m].how \in Assigning
                       => created[m].node_id # e.node_id
              /\ Has(loaded_nodes, e.node_id)
                    => loaded_nodes[e.node_id].node = None

\* getattr along the names of a path, None where an attribute is missing.
RECURSIVE Follow(_, _, _)
Follow(h, obj, names) ==
    IF names = << >> THEN obj
    ELSE IF ~HasAttr(h, obj, Head(names)) THEN None
    ELSE Follow(h, h[obj].attrs[<< Head(names) >>], Tail(names))

\* C22: after a filtered load that did not select node 0, every requested
\* path, followed from the synthetic root attribute by attribute after
\* "root", reaches the object returned for that path, in whatever order the
\* paths were listed.
C22_RequestedPathsTraversable ==
    (pc = "done" /\ Partial /\ ~filtered_nodes.all) =>
        \A path \in Requested :
           Follow(heap, nodes[0], Tail(path)) = result[path]

\* The value the priority order gives for the object of node i, and "none"
\* for an object of any other kind.
Resolved(i) ==
    LET obj == nodes[i]
        cls == IF obj \in DOMAIN heap THEN heap[obj].cls ELSE "NoneType"
    IN  IF cls = "distributed_variable" THEN Capture(obj, "object")
        ELSE IF cls = "variable" THEN Capture(obj, "handle")
        ELSE IF cls = "asset" THEN Capture(obj, "asset_path")
        ELSE IF cls \in {"constant", "captured_tensor"} THEN Capture(obj, "object")
        ELSE IF cls = "resource" THEN Capture(obj, "resource_handle")
        ELSE Capture(None, "none")

\* C23: every bound input of a function whose captures are set is resolved
\* in the priority order: a distributed variable to itself, a resource
\* variable to its handle, an asset to its path, a tensor to itself, a
\* resource to its resource handle.  When every bound input of every
\* function holds an object, the load fails with CaptureResolutionError
\* exactly when one of these objects is of none of these kinds.
C23_CapturePriority ==
    /\ \A f \in DOMAIN captured :
          /\ Len(captured[f]) = Len(concrete_functions[f].bound_inputs)
          /\ \A k \in DOMAIN captured[f] :
                captured[f][k] = Resolved(concrete_functions[f].bound_inputs[k])
    /\ (PastWiring /\ \A k \in DOMAIN AllBound : nodes[AllBound[k]] # None) =>
          ((pc = "failed" /\ error = "CaptureResolutionError")
             <=> \E k \in DOMAIN AllBound : Resolved(AllBound[k]).as = "none")

\* C23: a load has returned in which the functions captured a distributed
\* variable as itself and a variable by its handle.
C23_Witness ==
    /\ pc = "done"
    /\ \E f \in DOMAIN captured : \E k \in DOMAIN captured[f] :
          /\ captured[f][k].as = "object"
          /\ heap[captured[f][k].of].cls = "distributed_variable"
    /\ \E f \in DOMAIN captured : \E k \in DOMAIN captured[f] :
          /\ captured[f][k].as = "handle"
          /\ heap[captured[f][k].of].cls = "variable"

\* The object of node i was matched by the restore and has restore ops
\* pending.
Pending(i) ==
    /\ i \in checkpoint
    /\ nodes[i] \in DOMAIN heap
    /\ restore_ops[i] > 0

\* The object of node i is a resource variable; a lookup table.
HoldsVariable(i) ==
    nodes[i] \in DOMAIN heap
       /\ heap[nodes[i]].cls \in {"variable", "distributed_variable"}

HoldsTable(i) ==
    nodes[i] \in DOMAIN heap /\ heap[nodes[i]].cls = "lookup_table"

\* C24: in graph mode, when the restore has been asserted, every matched
\* object with pending restore ops is handled by kind: a resource variable
\* gets one initializer (its only op, or a group of all of them), a lookup
\* table has its ops added to the table initializers, and an object of any
\* other kind makes the load fail with UnsupportedRestoreTarget; an object
\* without pending ops never causes that failure and gets nothing; in eager
\* mode nothing of this is done.
C24_RestoreOpsByKind ==
    /\ (pc = "failed" /\ error = "UnsupportedRestoreTarget") =>
          /\ ~eager
          /\ \E i \in NodeIds :
                Pending(i) /\ ~HoldsVariable(i) /\ ~HoldsTable(i)
    /\ (pc \in {"return", "done"} /\ ~eager
          /\ ~save_options.experimental_skip_checkpoint) =>
          \A i \in NodeIds :
             IF Pending(i)
             THEN /\ HoldsVariable(i) \/ HoldsTable(i)
                  /\ HoldsVariable(i) =>
                        /\ initializer_op[i] =
                              IF restore_ops[i] = 1 THEN "restore_op" ELSE "group"
                        /\ i \notin Range(table_initializers)
                  /\ HoldsTable(i) =>
                        /\ initializer_op[i] = ""
                        /\ Cardinality({ k \in DOMAIN table_initializers :
                                            table_initializers[k] = i }) = 1
             ELSE /\ initializer_op[i] = ""
                  /\ i \notin Range(table_initializers)
    /\ eager =>
          /\ initializer_op = [i \in NodeIds |-> ""]
          /\ table_initializers = << >>
          /\ error # "UnsupportedRestoreTarget"

\* C24: a load in graph mode has returned: a variable got a group of its two
\* restore ops as initializer, the ops of a lookup table are among the
\* table initializers, and a matched user object had no restore op.
C24_Witness ==
    /\ pc = "done" /\ ~eager
    /\ \E i \in NodeIds :
          Pending(i) /\ HoldsVariable(i) /\ initializer_op[i] = "group"
    /\ \E i \in NodeIds :
          Pending(i) /\ HoldsTable(i) /\ i \in Range(table_initializers)
    /\ \E i \in checkpoint :
          /\ restore_ops[i] = 0
          /\ nodes[i] \in DOMAIN heap /\ heap[nodes[i]].cls = "user_object"

\* Node i has a child edge named "__call__".
HasCallEdge(i) ==
    \E k \in DOMAIN children[i] : children[i][k].local_name = << "__call__" >>

\* The generic user objects the load has made.
GenericUserObjects ==
    { o \in DOMAIN heap : o > Len(CallerHeap) /\ heap[o].cls = "user_object" }

\* The objects of the selected nodes that have a "__call__" edge.
WiredCallables == { nodes[i] : i \in { j \in Selected : HasCallEdge(j) } }

\* Edge wiring has completed.
PastEdges == pc \in {"functions", "restore", "return", "done"}

\* C25: after edge wiring, the object of every selected node with a child
\* edge named "__call__" is callable; "__call__" has been set only on the
\* types of such objects that were not callable of themselves; and a generic
\* user object is callable only if it is itself such an object, whatever
\* edges other generic user objects have.
C25_CallableByOwnType ==
    PastEdges =>
        /\ \A o \in WiredCallables : Callable(heap, call_types, o)
        /\ \A t \in call_types :
              \E o \in WiredCallables :
                 /\ o \in DOMAIN heap
                 /\ TypeOf(heap, o) = t
                 /\ heap[o].cls \notin {"function", "bare_concrete_function"}
        /\ \A o \in GenericUserObjects :
              Callable(heap, call_types, o) => o \in WiredCallables

\* C25: a load has returned with two generic user objects, one with a
\* "__call__" edge, which is callable, and one without, which is not.
C25_Witness ==
    /\ pc = "done"
    /\ \E o1 \in GenericUserObjects, o2 \in GenericUserObjects :
          /\ o1 \in WiredCallables /\ Callable(heap, call_types, o1)
          /\ o2 \in { nodes[i] : i \in Selected } \ WiredCallables
          /\ ~Callable(heap, call_types, o2)

\* The node ids the mapping supplies an object for.
SuppliedIds ==
    { node_path_to_id[filters.keys[k]] :
        k \in { j \in DOMAIN filters.keys : filters.vals[j].node # None } }

\* C26: in a load with a mapping, when node construction has completed, for
\* every visited node that holds a supplied or registered object and every
\* child edge whose local name that object tracks a dependency under, a
\* child that the mapping supplies no object for holds the tracked object,
\* and no object was built for it.
C26_TrackedChildrenReused ==
    (filters.kind = "dict" /\ pc = "load_edges") =>
        \A i \in all_filtered_nodes :
           LET node == LoadedNode(loaded_nodes, i)
           IN  (node # None /\ IsTrackable(heap, node)) =>
                  \A k \in DOMAIN children[i] :
                     LET reference == children[i][k]
                         tracked   == lookup_dependency(heap, node,
                                                        reference.local_name)
                     IN  (tracked # None
                            /\ reference.node_id \notin SuppliedIds) =>
                            /\ nodes[reference.node_id] = tracked
                            /\ \A n \in DOMAIN created :
                                  created[n].node_id # reference.node_id

\* The node ids that hold an object when node construction has succeeded.
Holders == Selected \cup SlotTargets \cup {0}

\* C27: when node construction has succeeded, the node table has one entry
\* per node id; an entry holds an object exactly for the selected ids, the
\* slot variables they refer to and id 0, which holds a fresh placeholder
\* root when node 0 is neither selected nor a slot variable; and every
\* child of a selected node holds an object.
C27_NodeTable ==
    pc = "load_edges" =>
        /\ DOMAIN nodes = NodeIds
        /\ \A i \in NodeIds : (nodes[i] # None) <=> (i \in Holders)
        /\ (0 \notin Selected \cup SlotTargets) =>
              \E n \in DOMAIN created :
                 /\ created[n].how = "dummy_root"
                 /\ created[n].node_id = 0 /\ created[n].obj = nodes[0]
        /\ \A i \in Selected :
              \A k \in DOMAIN children[i] :
                 nodes[children[i][k].node_id] # None

====
